---- MODULE Spec2Model ----
(***************************************************************************)
(* The ETL pipeline of dags/extract_transform_load.py: four Airflow tasks  *)
(* extract >> transform >> load >> validate, run by the Airflow scheduler  *)
(* with the DAG's default_args (retries = 1).  The tasks communicate       *)
(* through three fixed paths under DATA_DIR and through per-run XCom.      *)
(*                                                                         *)
(* Money is kept in integer cents (purchase_amount) and in hundredths of   *)
(* a cent (tax_amount, total_amount), so that the 10% tax is exact.        *)
(***************************************************************************)
EXTENDS Integers, Sequences, FiniteSets, TLC

\* ------------------------------------------------------------------ bounds
\* DAG runs created in one behaviour.
MaxRuns == 2
\* Largest count drawn for a key when validate_pipeline is checked alone.
MaxCount == 3
\* Most rows of a raw file drawn when transform_data is checked alone.
MaxRows == 2
\* The amounts drawn lie within this many cents of a category threshold.
Spread == 1

\* --------------------------------------------------------------- constants
\* default_args['retries']
retries == 1
\* 'High' if x > 200 (in cents)
HighThreshold == 20000
\* 'Medium' if x > 100 (in cents)
MediumThreshold == 10000
\* df['purchase_amount'] * 0.10, as a percentage
TaxPercent == 10

\* Python's None, as returned by xcom_pull for a key that was never pushed:
\* a value different from every count.
None == -1

Runs == 1..MaxRuns

\* task_id of the four PythonOperators
Tasks == {"extract", "transform", "load", "validate"}

\* The chain broken after transform: extract >> transform, load >> validate
Upstream_LoadUnwired(t) ==
    CASE t = "extract" -> {}
      [] t = "transform" -> {"extract"}
      [] t = "load" -> {}
      [] t = "validate" -> {"load"}

\* extract_task >> transform_task >> load_task >> validate_task:
\* the direct upstream tasks of each task
Upstream(t) ==
    CASE t = "extract" -> {}
      [] t = "transform" -> {"extract"}
      [] t = "load" -> {"transform"}
      [] t = "validate" -> {"load"}

\* The XCom keys pushed by extract, transform and load
Keys == {"extracted_records", "transformed_records", "loaded_records"}

\* ------------------------------------------------------------- sample data
sample_data ==
    << [customer_id |-> 1, customer_name |-> "John Doe",
        purchase_amount |-> 15050, purchase_date |-> "2024-01-01", region |-> "North"],
       [customer_id |-> 2, customer_name |-> "Jane Smith",
        purchase_amount |-> 20000, purchase_date |-> "2024-01-02", region |-> "South"],
       [customer_id |-> 3, customer_name |-> "Bob Johnson",
        purchase_amount |-> 7525, purchase_date |-> "2024-01-03", region |-> "East"],
       [customer_id |-> 4, customer_name |-> "Alice Brown",
        purchase_amount |-> 30075, purchase_date |-> "2024-01-04", region |-> "West"],
       [customer_id |-> 5, customer_name |-> "Charlie Wilson",
        purchase_amount |-> 12500, purchase_date |-> "2024-01-05", region |-> "North"] >>

\* ------------------------------------------------------------------- files
\* A CSV file at a fixed path: absent, or present with or without its header
\* line, and the rows that follow the header.
NoFile == [exists |-> FALSE, header |-> FALSE, rows |-> <<>>]
CsvFile(rs) == [exists |-> TRUE, header |-> TRUE, rows |-> rs]
\* open(path, 'w') truncated the file and nothing was flushed
EmptyFile == [exists |-> TRUE, header |-> FALSE, rows |-> <<>>]

\* to_csv with mode='a': the rows are added after those of the file
to_csv_append(f, rs) == CsvFile(f.rows \o rs)

\* df.to_csv(path, index=False) on a path that holds f: the file is opened
\* with mode 'w' and holds the frame's rows alone afterwards.
to_csv(f, rs) == CsvFile(rs)

\* What a failed df.to_csv can leave at the path: the file was opened for
\* writing (truncated) and any prefix of the output was flushed.
PartialWrites(rs) ==
    {EmptyFile} \cup {CsvFile(SubSeq(rs, 1, k)) : k \in 0..(Len(rs) - 1)}

\* The customer_purchases table of the SQLite database
NoTable == [exists |-> FALSE, rows |-> <<>>]
Table(rs) == [exists |-> TRUE, rows |-> rs]

\* to_sql with if_exists='append': the rows are added to those of the table
to_sql_append(tbl, rs) == Table(tbl.rows \o rs)

\* df.to_sql('customer_purchases', conn, if_exists='replace') on table tbl
to_sql(tbl, rs) == Table(rs)

\* What a failed df.to_sql(if_exists='replace') can leave: the old table was
\* dropped, or dropped and recreated empty (the insert is one transaction).
PartialReplace == {NoTable, Table(<<>>)}

\* --------------------------------------------------------------- transform
\* to_datetime with errors='coerce': a malformed value becomes NaT
ParseDate_Coerce(s) ==
    CASE s = "2024-01-01" -> [ok |-> TRUE, year |-> 2024, month |-> 1, day |-> 1]
      [] s = "2024-01-02" -> [ok |-> TRUE, year |-> 2024, month |-> 1, day |-> 2]
      [] s = "2024-01-03" -> [ok |-> TRUE, year |-> 2024, month |-> 1, day |-> 3]
      [] s = "2024-01-04" -> [ok |-> TRUE, year |-> 2024, month |-> 1, day |-> 4]
      [] s = "2024-01-05" -> [ok |-> TRUE, year |-> 2024, month |-> 1, day |-> 5]
      [] OTHER -> [ok |-> TRUE, year |-> 0, month |-> 0, day |-> 0]

\* pd.to_datetime on a value of the purchase_date column, as read_csv
\* returned it: ok is FALSE when to_datetime raises.  An empty field is read
\* as NaN and converted to NaT without an error; its year and month are NaN
\* (0 here).
ParseDate(s) ==
    CASE s = "" -> [ok |-> TRUE, year |-> 0, month |-> 0, day |-> 0]
      [] s = "2024-01-01" -> [ok |-> TRUE, year |-> 2024, month |-> 1, day |-> 1]
      [] s = "2024-01-02" -> [ok |-> TRUE, year |-> 2024, month |-> 1, day |-> 2]
      [] s = "2024-01-03" -> [ok |-> TRUE, year |-> 2024, month |-> 1, day |-> 3]
      [] s = "2024-01-04" -> [ok |-> TRUE, year |-> 2024, month |-> 1, day |-> 4]
      [] s = "2024-01-05" -> [ok |-> TRUE, year |-> 2024, month |-> 1, day |-> 5]
      [] OTHER -> [ok |-> FALSE, year |-> 0, month |-> 0, day |-> 0]

\* The comparisons written with >=
purchase_category_Inclusive(x) ==
    IF x >= HighThreshold THEN "High"
    ELSE IF x >= MediumThreshold THEN "Medium"
    ELSE "Low"

\* lambda x: 'High' if x > 200 else 'Medium' if x > 100 else 'Low'
purchase_category(x) ==
    IF x > HighThreshold THEN "High"
    ELSE IF x > MediumThreshold THEN "Medium"
    ELSE "Low"

\* df['purchase_amount'] * 0.10, in hundredths of a cent
tax_amount(x) == x * TaxPercent

\* The total without the tax
total_amount_NoTax(x) == x * 100

\* df['purchase_amount'] + df['tax_amount'], in hundredths of a cent
total_amount(x) == x * 100 + tax_amount(x)

\* One row of the transformed frame: the input columns and the derived ones
TransformRow(r) ==
    [customer_id |-> r.customer_id, customer_name |-> r.customer_name,
     purchase_amount |-> r.purchase_amount, purchase_date |-> r.purchase_date,
     region |-> r.region,
     tax_amount |-> tax_amount(r.purchase_amount),
     total_amount |-> total_amount(r.purchase_amount),
     month |-> ParseDate(r.purchase_date).month,
     year |-> ParseDate(r.purchase_date).year,
     purchase_category |-> purchase_category(r.purchase_amount)]

\* The rows without a date dropped before the columns are derived
TransformRows_DropNa(rs) ==
    LET kept == SelectSeq(rs, LAMBDA x : x.purchase_date # "")
    IN [i \in 1..Len(kept) |-> TransformRow(kept[i])]

\* The frame transform_data writes for the rows it read
TransformRows(rs) == [i \in 1..Len(rs) |-> TransformRow(rs[i])]

\* pd.to_datetime raises if any value of the column cannot be parsed
DatesParse(rs) == \A i \in 1..Len(rs) : ParseDate(rs[i].purchase_date).ok

\* ---------------------------------------------------------------- validate
\* The exception validate_pipeline raises: the message is an f-string with
\* no replacement field, so no value is formatted into it.
ValidationError ==
    [type |-> "ValueError",
     msg |-> "Pipeline validation failed! Record counts don't match.",
     values |-> <<>>]

\* An exception raised by an I/O call of a task
IOError == [type |-> "OSError", msg |-> "I/O error", values |-> <<>>]
NoError == [type |-> "", msg |-> "", values |-> <<>>]

\* A comparison that leaves the loaded count out
CountsMatch_FirstTwo(extracted, transformed, loaded) ==
    extracted = transformed

\* if extracted == transformed == loaded
CountsMatch(extracted, transformed, loaded) ==
    extracted = transformed /\ transformed = loaded

\* validate_pipeline on the three values xcom_pull returned: the exception
\* it raises, or NoError when it returns
validate_pipeline(extracted, transformed, loaded) ==
    IF CountsMatch(extracted, transformed, loaded) THEN NoError ELSE ValidationError

\* ------------------------------------------------------------------- state
VARIABLES
    dir_exists,   \* DATA_DIR exists
    raw,          \* the file at RAW_DATA_PATH
    transformed,  \* the file at TRANSFORMED_DATA_PATH
    table,        \* the customer_purchases table in the database at DB_PATH
    dagrun,       \* state of each DAG run: "none" until it is created
    state,        \* state of each task instance of each run
    try_number,   \* attempts made so far by each task instance
    xcom,         \* per run, the value pushed under each key (None if none)
    exc,          \* per task instance, the exception of its last attempt
    df            \* per run, the frame held by load_data while it is running

vars == <<dir_exists, raw, transformed, table, dagrun, state, try_number, xcom, exc, df>>

files == <<dir_exists, raw, transformed, table>>

\* transform pushing under the key of extract
KeyOf_CopyPaste(t) ==
    CASE t = "extract" -> "extracted_records"
      [] t = "transform" -> "extracted_records"
      [] t = "load" -> "loaded_records"

\* The key each task pushes
KeyOf(t) ==
    CASE t = "extract" -> "extracted_records"
      [] t = "transform" -> "transformed_records"
      [] t = "load" -> "loaded_records"

\* Nothing on disk, no run created yet
Init ==
    /\ dir_exists = FALSE
    /\ raw = NoFile
    /\ transformed = NoFile
    /\ table = NoTable
    /\ dagrun = [r \in Runs |-> "none"]
    /\ state = [r \in Runs |-> [t \in Tasks |-> "none"]]
    /\ try_number = [r \in Runs |-> [t \in Tasks |-> 0]]
    /\ xcom = [r \in Runs |-> [k \in Keys |-> None]]
    /\ exc = [r \in Runs |-> [t \in Tasks |-> NoError]]
    /\ df = [r \in Runs |-> <<>>]

\* ------------------------------------------------------------------ runner
\* The scheduler creates the next DAG run (schedule_interval, or a manual
\* trigger); the DAG does not set max_active_runs, so the previous run may
\* still be running.
CreateRun(r) ==
    /\ dagrun[r] = "none"
    /\ r > 1 => dagrun[r - 1] # "none"
    /\ dagrun' = [dagrun EXCEPT ![r] = "running"]
    /\ UNCHANGED <<files, state, try_number, xcom, exc, df>>

\* trigger_rule all_done: started once the upstream tasks ended, however
Runnable_AllDone(r, t) ==
    /\ dagrun[r] = "running"
    /\ state[r][t] \in {"none", "up_for_retry"}
    /\ \A u \in Upstream(t) : state[r][u] \in {"success", "failed", "upstream_failed"}

\* A task instance is started when its run is running, it is scheduled or
\* waiting for its retry, and all its upstream tasks succeeded
\* (trigger_rule all_success, the default).
Runnable(r, t) ==
    /\ dagrun[r] = "running"
    /\ state[r][t] \in {"none", "up_for_retry"}
    /\ \A u \in Upstream(t) : state[r][u] = "success"

\* One retry too many
StateAfter_TwoRetries(tries, e) ==
    IF e = NoError THEN "success"
    ELSE IF tries <= retries + 1 THEN "up_for_retry"
    ELSE "failed"

\* The state a task instance takes when its attempt ends with exception e
\* (NoError: it returned): a failed attempt is retried while the attempts
\* made do not exceed default_args['retries'].
StateAfter(tries, e) ==
    IF e = NoError THEN "success"
    ELSE IF tries <= retries THEN "up_for_retry"
    ELSE "failed"

\* Bookkeeping of one attempt of task t of run r that ended with e
Finish(r, t, e) ==
    /\ try_number' = [try_number EXCEPT ![r][t] = @ + 1]
    /\ state' = [state EXCEPT ![r][t] = StateAfter(try_number[r][t] + 1, e)]
    /\ exc' = [exc EXCEPT ![r][t] = e]
    /\ UNCHANGED dagrun

\* An attempt of task t of run r starts and is still running after the step
Start(r, t) ==
    /\ try_number' = [try_number EXCEPT ![r][t] = @ + 1]
    /\ state' = [state EXCEPT ![r][t] = "running"]
    /\ UNCHANGED <<dagrun, exc>>

\* The running attempt of task t of run r ends with e
End(r, t, e) ==
    /\ state' = [state EXCEPT ![r][t] = StateAfter(try_number[r][t], e)]
    /\ exc' = [exc EXCEPT ![r][t] = e]
    /\ UNCHANGED <<dagrun, try_number>>

\* The push made as soon as the frame of n rows is built, before the write
PushedBeforeWrite_Early(n) == n

\* What an attempt has pushed when df.to_csv raises on its frame of n rows:
\* nothing, xcom_push being the statement after the write.
PushedBeforeWrite(n) == None

\* xcom of run r after an attempt of task t: the attempt starts by clearing
\* the task's own XCom and pushes v as its last statement, if it gets there.
Pushed(r, t, v) == [xcom EXCEPT ![r][KeyOf(t)] = v]

\* A task whose upstream task failed or was itself not run is never run
UpstreamFailed(r, t) ==
    /\ dagrun[r] = "running"
    /\ state[r][t] = "none"
    /\ \E u \in Upstream(t) : state[r][u] \in {"failed", "upstream_failed"}
    /\ state' = [state EXCEPT ![r][t] = "upstream_failed"]
    /\ UNCHANGED <<files, dagrun, try_number, xcom, exc, df>>

\* Tasks with no downstream task: their states decide the state of the run
Leaves == {t \in Tasks : \A d \in Tasks : t \notin Upstream(d)}

Finished == {"success", "failed", "upstream_failed"}

\* A run counted as success as soon as one of its tasks succeeded
RunState_AnySuccess(r) ==
    IF \E t \in Tasks : state[r][t] = "success" THEN "success" ELSE "failed"

\* The state of a run whose task instances are all finished: success if
\* every leaf succeeded, failed otherwise.
RunState(r) ==
    IF \A t \in Leaves : state[r][t] = "success" THEN "success" ELSE "failed"

\* The run ends when every task instance is finished
UpdateState(r) ==
    /\ dagrun[r] = "running"
    /\ \A t \in Tasks : state[r][t] \in Finished
    /\ dagrun' = [dagrun EXCEPT ![r] = RunState(r)]
    /\ UNCHANGED <<files, state, try_number, xcom, exc, df>>

\* ------------------------------------------------------------------- tasks
\* extract_data: makedirs, to_csv(RAW_DATA_PATH), xcom_push
Extract(r) ==
    /\ Runnable(r, "extract")
    /\ UNCHANGED <<transformed, table, df>>
    /\ \/ \* os.makedirs raises
          /\ UNCHANGED <<dir_exists, raw>>
          /\ xcom' = Pushed(r, "extract", None)
          /\ Finish(r, "extract", IOError)
       \/ \* df.to_csv raises: at open, or after truncating the file
          /\ dir_exists' = TRUE
          /\ raw' \in {raw} \cup PartialWrites(sample_data)
          /\ xcom' = Pushed(r, "extract", PushedBeforeWrite(Len(sample_data)))
          /\ Finish(r, "extract", IOError)
       \/ \* xcom_push raises
          /\ dir_exists' = TRUE
          /\ raw' = to_csv(raw, sample_data)
          /\ xcom' = Pushed(r, "extract", None)
          /\ Finish(r, "extract", IOError)
       \/ \* the task returns
          /\ dir_exists' = TRUE
          /\ raw' = to_csv(raw, sample_data)
          /\ xcom' = Pushed(r, "extract", Len(sample_data))
          /\ Finish(r, "extract", NoError)

\* pd.read_csv raises on a missing file and on a file without a header line
Readable(f) == f.exists /\ f.header

\* transform_data: read_csv(RAW_DATA_PATH), derive the columns,
\* to_csv(TRANSFORMED_DATA_PATH), xcom_push
Transform(r) ==
    /\ Runnable(r, "transform")
    /\ UNCHANGED <<dir_exists, raw, table, df>>
    /\ \/ \* pd.read_csv or pd.to_datetime raises
          /\ UNCHANGED transformed
          /\ xcom' = Pushed(r, "transform", None)
          /\ Finish(r, "transform", IOError)
       \/ \* df.to_csv raises
          /\ Readable(raw) /\ DatesParse(raw.rows)
          /\ transformed' \in {transformed} \cup PartialWrites(TransformRows(raw.rows))
          /\ xcom' = Pushed(r, "transform",
                            PushedBeforeWrite(Len(TransformRows(raw.rows))))
          /\ Finish(r, "transform", IOError)
       \/ \* xcom_push raises
          /\ Readable(raw) /\ DatesParse(raw.rows)
          /\ transformed' = to_csv(transformed, TransformRows(raw.rows))
          /\ xcom' = Pushed(r, "transform", None)
          /\ Finish(r, "transform", IOError)
       \/ \* the task returns
          /\ Readable(raw) /\ DatesParse(raw.rows)
          /\ transformed' = to_csv(transformed, TransformRows(raw.rows))
          /\ xcom' = Pushed(r, "transform", Len(TransformRows(raw.rows)))
          /\ Finish(r, "transform", NoError)

\* load_data is the one task that reads a target back after writing it, so
\* it takes two steps: another run may write the table in between.
\* First step: read_csv(TRANSFORMED_DATA_PATH), sqlite3.connect,
\* to_sql(if_exists='replace').
LoadWrite(r) ==
    /\ Runnable(r, "load")
    /\ UNCHANGED <<dir_exists, raw, transformed>>
    /\ xcom' = Pushed(r, "load", None)
    /\ \/ \* pd.read_csv or sqlite3.connect raises
          /\ UNCHANGED <<table, df>>
          /\ Finish(r, "load", IOError)
       \/ \* df.to_sql raises
          /\ Readable(transformed)
          /\ table' \in {table} \cup PartialReplace
          /\ UNCHANGED df
          /\ Finish(r, "load", IOError)
       \/ \* to_sql returned: the table holds the frame
          /\ Readable(transformed)
          /\ df' = [df EXCEPT ![r] = transformed.rows]
          /\ table' = to_sql(table, transformed.rows)
          /\ Start(r, "load")

\* cursor.fetchone()[0] of SELECT COUNT(*) FROM customer_purchases
SelectCount(r) == Len(table.rows)

\* Second step: SELECT COUNT(*), close, xcom_push(count)
LoadCount(r) ==
    /\ dagrun[r] = "running"
    /\ state[r]["load"] = "running"
    /\ UNCHANGED files
    /\ df' = [df EXCEPT ![r] = <<>>]
    /\ \/ \* the count query raises (always if the table was dropped), or
          \* xcom_push raises
          /\ xcom' = Pushed(r, "load", None)
          /\ End(r, "load", IOError)
       \/ \* the task returns
          /\ table.exists
          /\ xcom' = Pushed(r, "load", SelectCount(r))
          /\ End(r, "load", NoError)

\* ti.xcom_pull(key=k, task_ids=...) in run r
xcom_pull(r, k) == xcom[r][k]

\* validate_pipeline as a task of run r
Validate(r) ==
    /\ Runnable(r, "validate")
    /\ UNCHANGED <<files, xcom, df>>
    /\ Finish(r, "validate",
              validate_pipeline(xcom_pull(r, "extracted_records"),
                                xcom_pull(r, "transformed_records"),
                                xcom_pull(r, "loaded_records")))

Next ==
    \E r \in Runs :
        \/ CreateRun(r)
        \/ Extract(r)
        \/ Transform(r)
        \/ LoadWrite(r)
        \/ LoadCount(r)
        \/ Validate(r)
        \/ \E t \in Tasks : UpstreamFailed(r, t)
        \/ UpdateState(r)

Spec == Init /\ [][Next]_vars

\* ------------------------------------------------- other specifications
Terminal == {"success", "failed"}

\* Runs as the daily schedule creates them: a run is created after the
\* previous one ended.
CreateRunInSequence(r) ==
    /\ r > 1 => dagrun[r - 1] \in Terminal
    /\ CreateRun(r)

NextSeq ==
    \E r \in Runs :
        \/ CreateRunInSequence(r)
        \/ Extract(r)
        \/ Transform(r)
        \/ LoadWrite(r)
        \/ LoadCount(r)
        \/ Validate(r)
        \/ \E t \in Tasks : UpstreamFailed(r, t)
        \/ UpdateState(r)

SpecSeq == Init /\ [][NextSeq]_vars

\* Every attempt returns and the scheduler keeps scheduling each created run
FairSpec == Spec /\ \A r \in Runs :
    WF_vars(Extract(r) \/ Transform(r) \/ LoadWrite(r) \/ LoadCount(r) \/ Validate(r)
            \/ (\E t \in Tasks : UpstreamFailed(r, t)) \/ UpdateState(r))

\* validate_pipeline called on its own, on a context whose XCom holds any
\* combination of published and missing keys.
InitValidate ==
    /\ dir_exists = FALSE
    /\ raw = NoFile
    /\ transformed = NoFile
    /\ table = NoTable
    /\ dagrun = [r \in Runs |-> IF r = 1 THEN "running" ELSE "none"]
    /\ state = [r \in Runs |-> [t \in Tasks |-> "none"]]
    /\ try_number = [r \in Runs |-> [t \in Tasks |-> 0]]
    /\ \E x \in [Keys -> {None} \cup 0..MaxCount] :
          xcom = [r \in Runs |-> IF r = 1 THEN x ELSE [k \in Keys |-> None]]
    /\ exc = [r \in Runs |-> [t \in Tasks |-> NoError]]
    /\ df = [r \in Runs |-> <<>>]

CallValidate(r) ==
    /\ dagrun[r] = "running"
    /\ state[r]["validate"] = "none"
    /\ LET e == validate_pipeline(xcom_pull(r, "extracted_records"),
                                  xcom_pull(r, "transformed_records"),
                                  xcom_pull(r, "loaded_records"))
       IN /\ exc' = [exc EXCEPT ![r]["validate"] = e]
          /\ state' = [state EXCEPT ![r]["validate"] =
                          IF e = NoError THEN "success" ELSE "failed"]
    /\ try_number' = [try_number EXCEPT ![r]["validate"] = @ + 1]
    /\ UNCHANGED <<files, dagrun, xcom, df>>

NextValidate == \E r \in Runs : CallValidate(r)

SpecValidate == InitValidate /\ [][NextValidate]_vars

\* Runs in sequence, every attempt returning and every run being scheduled
FairSpecSeq == SpecSeq /\ \A r \in Runs :
    WF_vars(Extract(r) \/ Transform(r) \/ LoadWrite(r) \/ LoadCount(r) \/ Validate(r)
            \/ (\E t \in Tasks : UpstreamFailed(r, t)) \/ UpdateState(r))

\* transform_data run as the task of run 1 on any raw file: amounts around
\* the two thresholds; a date that parses, a missing one, a malformed one.
TestAmounts ==
    (MediumThreshold - Spread)..(MediumThreshold + Spread)
        \cup (HighThreshold - Spread)..(HighThreshold + Spread)

TestDates == {"2024-01-01", "", "not-a-date"}

TestRecords ==
    {[customer_id |-> 1, customer_name |-> "John Doe", purchase_amount |-> a,
      purchase_date |-> d, region |-> "North"] : a \in TestAmounts, d \in TestDates}

TestRaw ==
    {NoFile, EmptyFile}
        \cup {CsvFile(rs) : rs \in UNION {[1..n -> TestRecords] : n \in 0..MaxRows}}

InitTransform ==
    /\ dir_exists = TRUE
    /\ raw \in TestRaw
    /\ transformed \in {NoFile, CsvFile(TransformRows(sample_data))}
    /\ table = NoTable
    /\ dagrun = [r \in Runs |-> IF r = 1 THEN "running" ELSE "none"]
    /\ state = [r \in Runs |-> [t \in Tasks |->
                  IF r = 1 /\ t = "extract" THEN "success" ELSE "none"]]
    /\ try_number = [r \in Runs |-> [t \in Tasks |->
                       IF r = 1 /\ t = "extract" THEN 1 ELSE 0]]
    /\ xcom = [r \in Runs |-> [k \in Keys |->
                 IF r = 1 /\ k = "extracted_records" THEN Len(raw.rows) ELSE None]]
    /\ exc = [r \in Runs |-> [t \in Tasks |-> NoError]]
    /\ df = [r \in Runs |-> <<>>]

NextTransform == \E r \in Runs : Transform(r)

SpecTransform == InitTransform /\ [][NextTransform]_vars

\* -------------------------------------------------------------- properties
\* The three counts run r's validate reads
Counts(r) ==
    <<xcom[r]["extracted_records"], xcom[r]["transformed_records"],
      xcom[r]["loaded_records"]>>

AllPublished(r) == \A k \in Keys : xcom[r][k] # None

AllEqual(r) ==
    /\ xcom[r]["extracted_records"] = xcom[r]["transformed_records"]
    /\ xcom[r]["transformed_records"] = xcom[r]["loaded_records"]

\* validate_pipeline was called in run r and returned / raised
Validated(r) == try_number[r]["validate"] > 0 /\ exc[r]["validate"] = NoError
ValidateRaised(r) == try_number[r]["validate"] > 0 /\ exc[r]["validate"] # NoError

\* C1: validate_pipeline returns if and only if all three counts are
\* published and equal; with any key missing (all three included) it raises.
C1_ValidateIffPublishedAndEqual ==
    \A r \in Runs :
        try_number[r]["validate"] > 0 =>
            (Validated(r) <=> (AllPublished(r) /\ AllEqual(r)))

\* C2: a run in state success (validated) has all three counts published
\* and equal.
C2_ValidatedImpliesCounts ==
    \A r \in Runs : dagrun[r] = "success" => AllPublished(r) /\ AllEqual(r)

C2_Witness == \E r \in Runs : dagrun[r] = "success" /\ AllPublished(r)

\* A step is an attempt of task t of run r
Attempt(r, t) == try_number'[r][t] = try_number[r][t] + 1

\* C3: an attempt of transform starts only when extract succeeded, of load
\* only when transform succeeded, of validate only when load succeeded; so
\* validate runs after all three publishers succeeded and published.
C3_NoStartBeforeUpstreamSuccess ==
    [][\A r \in Runs :
          /\ Attempt(r, "transform") => state[r]["extract"] = "success"
          /\ Attempt(r, "load") => state[r]["transform"] = "success"
          /\ Attempt(r, "validate") =>
                /\ \A t \in {"extract", "transform", "load"} : state[r][t] = "success"
                /\ AllPublished(r)]_vars

C3_Witness == \E r \in Runs : try_number[r]["validate"] > 0 /\ AllPublished(r)

\* The tasks after t in the chain extract, transform, load, validate
After(t) ==
    CASE t = "extract" -> {"transform", "load", "validate"}
      [] t = "transform" -> {"load", "validate"}
      [] t = "load" -> {"validate"}
      [] t = "validate" -> {}

\* C4: when a task failed permanently, no task after it in the chain is
\* ever attempted in that run, and none of them publishes a count.
C4_DependentsOfFailedNeverRun ==
    \A r \in Runs : \A t \in Tasks :
        state[r][t] = "failed" =>
            \A d \in After(t) :
                /\ try_number[r][d] = 0
                /\ state[r][d] \in {"none", "upstream_failed"}
                /\ d # "validate" => xcom[r][KeyOf(d)] = None

C4_Witness ==
    \E r \in Runs :
        /\ state[r]["transform"] = "failed"
        /\ state[r]["load"] = "upstream_failed"
        /\ state[r]["validate"] = "upstream_failed"
        /\ dagrun[r] = "failed"

\* C5: every task is attempted at most twice, a second attempt is made only
\* by a task whose first attempt failed, and a run with a task whose
\* attempts are exhausted does not end in success but in failed.
C5_OneRetryUniformly ==
    /\ [](\A r \in Runs : \A t \in Tasks :
            /\ try_number[r][t] <= 2
            /\ state[r][t] = "failed" =>
                  /\ try_number[r][t] = 2
                  /\ dagrun[r] \in {"running", "failed"})
    /\ [][\A r \in Runs : \A t \in Tasks :
            (Attempt(r, t) /\ try_number[r][t] > 0) =>
                state[r][t] = "up_for_retry" /\ exc[r][t] # NoError]_vars

C5_Witness ==
    \E r \in Runs : \E t \in Tasks :
        state[r][t] = "failed" /\ try_number[r][t] = 2 /\ dagrun[r] = "failed"

\* C6: validate is never retried: once validate_pipeline raised, the task
\* is failed after that one attempt and no second attempt is made.
C6_ValidateNeverRetried ==
    \A r \in Runs :
        ValidateRaised(r) =>
            state[r]["validate"] = "failed" /\ try_number[r]["validate"] = 1

\* C7: the exception validate_pipeline raises carries the three counts it
\* read: extracted, transformed, loaded.
C7_ErrorCarriesCounts ==
    \A r \in Runs : ValidateRaised(r) => exc[r]["validate"].values = Counts(r)

\* The targets after the pipeline ran once from nothing
FullRaw == CsvFile(sample_data)
FullTransformed == CsvFile(TransformRows(sample_data))
FullTable == Table(TransformRows(sample_data))

\* Run r is the last run created
Latest(r) == r = MaxRuns \/ dagrun[r + 1] = "none"

\* C8: with runs in sequence, once extract, transform and load of the
\* latest run succeeded, the three targets hold what a single run from
\* nothing leaves, whatever the earlier runs left behind.
C8_RerunLeavesSameContents ==
    \A r \in Runs :
        (Latest(r) /\ \A t \in {"extract", "transform", "load"} : state[r][t] = "success")
            => raw = FullRaw /\ transformed = FullTransformed /\ table = FullTable

C8_Witness ==
    /\ dagrun[1] = "success"
    /\ dagrun[2] = "success"
    /\ table = FullTable

\* C9: from some point on no run is running: every created run leaves
\* "running" only for success or failed and stays as it ended; it ends
\* failed exactly if one of its tasks exhausted its attempts (a validate
\* that raised being one of them).
C9_RunTerminates ==
    /\ <>[](\A r \in Runs : dagrun[r] # "running")
    /\ [][\A r \in Runs :
            /\ dagrun[r] \in Terminal => dagrun'[r] = dagrun[r]
            /\ dagrun[r] = "running" => dagrun'[r] \in {"running"} \cup Terminal]_vars
    /\ [](\A r \in Runs :
            /\ dagrun[r] = "failed" <=>
                  (dagrun[r] \in Terminal /\
                   \E t \in Tasks : state[r][t] = "failed" /\ try_number[r][t] = retries + 1)
            /\ (dagrun[r] \in Terminal /\ ValidateRaised(r)) => dagrun[r] = "failed")

C9_Witness ==
    \E r \in Runs : dagrun[r] = "failed" /\ state[r]["validate"] = "failed"

\* C10: the raw file is never left with partial content: it is absent or
\* holds a complete record set (every complete set extract writes is
\* sample_data).
C10_RawNeverPartial ==
    raw = NoFile \/ raw = FullRaw

\* Extract, transform and load of run r each succeeded at the first attempt
NoFailure(r) ==
    \A t \in {"extract", "transform", "load"} :
        state[r][t] = "success" /\ try_number[r][t] = 1

\* Row x carries the derived fields of a 2024-01 purchase: 10% tax, total,
\* month, year, and the category of its amount
DerivedFields(x) ==
    /\ x.tax_amount = x.purchase_amount * 10
    /\ x.total_amount = x.purchase_amount * 110
    /\ x.month = 1 /\ x.year = 2024
    /\ x.purchase_category =
          (IF x.purchase_amount > 20000 THEN "High"
           ELSE IF x.purchase_amount > 10000 THEN "Medium" ELSE "Low")

\* C11: in a run in which no attempt of extract, transform or load failed,
\* each of the three publishes 5, the table holds the five records with
\* all derived fields and a category that fits the thresholds, validate
\* does not raise and the run ends in success.
C11_SampleRunValidated ==
    /\ [](\A r \in Runs : NoFailure(r) =>
            /\ Counts(r) = <<5, 5, 5>>
            /\ ~ValidateRaised(r)
            /\ dagrun[r] \in {"running", "success"}
            /\ Latest(r) =>
                  /\ Len(table.rows) = 5
                  /\ \A i \in 1..Len(table.rows) :
                        /\ table.rows[i].customer_id = i
                        /\ DerivedFields(table.rows[i]))
    /\ \A r \in Runs : NoFailure(r) ~> (dagrun[r] = "success")

C11_Witness ==
    \E r \in Runs :
        /\ NoFailure(r) /\ Latest(r) /\ dagrun[r] = "success"
        /\ Len(table.rows) = 5
        /\ table.rows[2].purchase_category = "Medium"
        /\ table.rows[4].purchase_category = "High"

\* C12: every row transform writes has the category of its amount in
\* cents: High iff above 20000, Medium iff above 10000 and at most 20000,
\* Low iff at most 10000; so 20000 is Medium, 20001 High, 10000 Low and
\* 10001 Medium.
C12_CategoryBoundaries ==
    \A i \in 1..Len(transformed.rows) :
        LET a == transformed.rows[i].purchase_amount
            c == transformed.rows[i].purchase_category
        IN /\ c \in {"High", "Medium", "Low"}
           /\ c = "High" <=> a > 20000
           /\ c = "Medium" <=> (a > 10000 /\ a <= 20000)
           /\ c = "Low" <=> a <= 10000
           /\ a = 20000 => c = "Medium"
           /\ a = 20001 => c = "High"
           /\ a = 10000 => c = "Low"
           /\ a = 10001 => c = "Medium"

C12_Witness ==
    /\ try_number[1]["transform"] > 0
    /\ Len(transformed.rows) = 2
    /\ transformed.rows[1].purchase_amount = 20000
    /\ transformed.rows[1].purchase_category = "Medium"
    /\ transformed.rows[2].purchase_amount = 10000
    /\ transformed.rows[2].purchase_category = "Low"

\* The count run r holds for extract, transform or load
Published(r, t) ==
    CASE t = "extract" -> xcom[r]["extracted_records"]
      [] t = "transform" -> xcom[r]["transformed_records"]
      [] t = "load" -> xcom[r]["loaded_records"]

\* C13: in a run a count is on the bus exactly if its task succeeded; an
\* attempt starts only while the task's count is not published, and a
\* published count never changes: each key is published at most once over
\* all attempts and never overwritten.
C13_PublishedOnce ==
    /\ [](\A r \in Runs : \A t \in {"extract", "transform", "load"} :
            Published(r, t) # None <=> state[r][t] = "success")
    /\ [][\A r \in Runs :
            /\ \A t \in {"extract", "transform", "load"} :
                  Attempt(r, t) => Published(r, t) = None
            /\ \A k \in Keys : xcom[r][k] # None => xcom'[r][k] = xcom[r][k]]_vars

C13_Witness ==
    \E r \in Runs :
        /\ try_number[r]["transform"] = 2
        /\ state[r]["transform"] = "success"
        /\ xcom[r]["transformed_records"] # None
        /\ dagrun[r] \in Terminal

\* Extract, transform and load of run r succeeded, one of them at its retry
RetriedAndSucceeded(r) ==
    /\ \A t \in {"extract", "transform", "load"} : state[r][t] = "success"
    /\ \E t \in {"extract", "transform", "load"} : try_number[r][t] = 2

\* C14: with runs in sequence, a run in which an attempt of extract,
\* transform or load failed and its retry succeeded has the targets and
\* the counts of a run without a failed attempt: the full raw file, the
\* full transformed file, the full table and 5, 5, 5.
C14_RetryLeavesNoTrace ==
    \A r \in Runs :
        (Latest(r) /\ RetriedAndSucceeded(r)) =>
            /\ raw = FullRaw
            /\ transformed = FullTransformed
            /\ table = FullTable
            /\ Counts(r) = <<5, 5, 5>>
            /\ ~ValidateRaised(r)

C14_Witness ==
    \E r \in Runs :
        /\ try_number[r]["extract"] = 2
        /\ try_number[r]["transform"] = 2
        /\ try_number[r]["load"] = 2
        /\ dagrun[r] = "success"
        /\ table = FullTable

\* The step in which load_data of run r counts the rows and returns
CountStep(r) == state[r]["load"] = "running" /\ state'[r]["load"] = "success"

\* C15: the count load publishes is the number of rows the table holds
\* when it is counted; and when that number differs from the number of
\* rows load read from the transformed file, the three counts of the run
\* are not all equal, so that validate raises and the run fails.
C15_LoadedCountFromStore ==
    [][\A r \in Runs :
          CountStep(r) =>
              /\ xcom'[r]["loaded_records"] = Len(table.rows)
              /\ Len(df[r]) # Len(table.rows) => ~AllEqual(r)']_vars

\* The step in which transform_data of run r returns
TransformReturns(r) ==
    Attempt(r, "transform") /\ state'[r]["transform"] = "success"

Malformed(d) ==
    d \notin {"", "2024-01-01", "2024-01-02", "2024-01-03", "2024-01-04", "2024-01-05"}

HasMalformedDate(f) == \E i \in 1..Len(f.rows) : Malformed(f.rows[i].purchase_date)

C18_TargetsOfOneRun ==
    /\ [](\A r1, r2 \in Runs :
            (state[r1]["load"] = "running" /\ state[r2]["load"] = "running") => r1 = r2)
    /\ [][\A r \in Runs : CountStep(r) => table = Table(df[r])]_vars

\* Task t of run r pushes its count in this step
Publishes(r, t) == Published(r, t) = None /\ Published(r, t)' # None

\* An attempt of task t of run r ends with an exception in this step
AttemptFails(r, t) ==
    /\ state[r][t] # state'[r][t]
    /\ state'[r][t] \in {"up_for_retry", "failed"}

====
